---- MODULE Spec2Model ----
(***************************************************************************)
(* Model of the log gateway client (src/lib/client.ts): the               *)
(* LogGatewayClient class, its transport primitive _httpRequest, the      *)
(* factory createClient, the global registry slot globalLogger with       *)
(* configure, and the log.* free functions.                               *)
(*                                                                         *)
(* JavaScript values are tagged records; strings are TLA+ strings; an     *)
(* endpoint is a sequence of one-character-like tokens so that the        *)
(* trailing-slash regular expression can be modelled by what it does.     *)
(***************************************************************************)
EXTENDS Integers, Sequences, FiniteSets, TLC

VARIABLES
    heap,           \* the LogGatewayClient objects constructed so far
    made,           \* history: for each heap object, who built it and from which arguments
    globalLogger,   \* the registry slot: 0 is null, else an index into heap
    lastConfigure,  \* history: the arguments and outcome of the latest configure calls
    calls,          \* every call issued so far, with its requests and its promise
    now             \* the wall clock read by new Date()

vars == <<heap, made, globalLogger, lastConfigure, calls, now>>

---------------------------------------------------------------------------
(* Bounds of the model *)

MaxClients == 3
MaxCalls == 2
MaxTime == 2

---------------------------------------------------------------------------
(* JavaScript values *)

Undefined == [t |-> "undefined"]
Null == [t |-> "null"]
Str(s) == [t |-> "string", s |-> s]
Num(n) == [t |-> "number", n |-> n]
Bool(b) == [t |-> "boolean", b |-> b]
Obj(f) == [t |-> "object", f |-> f]
Arr(s) == [t |-> "array", e |-> s]
Err(m) == [t |-> "Error", message |-> m]

NoFields == [k \in {} |-> Undefined]

\* JavaScript truthiness, as tested by `!x`, `x || y` and `if (x)`
Truthy(v) ==
    CASE v.t = "undefined" -> FALSE
      [] v.t = "null" -> FALSE
      [] v.t = "string" -> v.s # ""
      [] v.t = "number" -> v.n # 0
      [] v.t = "boolean" -> v.b
      [] OTHER -> TRUE

\* The own enumerable properties an object spread `...v` copies
SpreadFields(v) == IF v.t = "object" THEN v.f ELSE NoFields

\* { ...a, ...b } on property maps: b's properties win
Overlay(a, b) ==
    [k \in (DOMAIN a) \cup (DOMAIN b) |-> IF k \in DOMAIN b THEN b[k] ELSE a[k]]

\* v.k for a value that is not null or undefined
GetProp(v, k) ==
    IF v.t = "object" /\ k \in DOMAIN v.f THEN v.f[k] ELSE Undefined

\* String(v), as used by new Error(v)
ToStr(v) ==
    CASE v.t = "string" -> v.s
      [] v.t = "number" -> ToString(v.n)
      [] v.t = "boolean" -> (IF v.b THEN "true" ELSE "false")
      [] v.t = "array" -> ""
      [] OTHER -> "[object Object]"

\* new Date().toISOString() at clock reading n
toISOString(n) == "T" \o ToString(n)

\* What JSON.stringify keeps of a value nested in an object or an array
StringifyFields(f) ==
    [k \in {j \in DOMAIN f : f[j].t # "undefined"} |-> f[k]]

StringifyElement(v) ==
    CASE v.t = "undefined" -> Null
      [] v.t = "object" -> Obj(StringifyFields(v.f))
      [] OTHER -> v

\* JSON.stringify(v): the text written to the request, named by the JSON
\* value it denotes. Properties whose value is undefined are not written;
\* an undefined array element is written as null.
JSONstringify(v) ==
    CASE v.t = "object" -> [json |-> Obj(StringifyFields(v.f))]
      [] v.t = "array" ->
            [json |-> Arr([i \in 1..Len(v.e) |-> StringifyElement(v.e[i])])]
      [] OTHER -> [json |-> v]

\* JSON.parse(text) on the response texts of the model: ok is FALSE when
\* JSON.parse throws a SyntaxError
JSONparse(text) ==
    CASE text = "null" -> [ok |-> TRUE, value |-> Null]
      [] text = "5" -> [ok |-> TRUE, value |-> Num(5)]
      [] text = "{}" -> [ok |-> TRUE, value |-> Obj(NoFields)]
      [] text = "{\"error\":\"db down\"}" ->
            [ok |-> TRUE, value |-> Obj([error |-> Str("db down")])]
      [] text = "{\"error\":\"\"}" ->
            [ok |-> TRUE, value |-> Obj([error |-> Str("")])]
      [] text = "{\"success\":true,\"ingested\":1}" ->
            [ok |-> TRUE, value |-> Obj([success |-> Bool(TRUE), ingested |-> Num(1)])]
      [] text = "{\"status\":\"ok\",\"timestamp\":\"t\"}" ->
            [ok |-> TRUE, value |-> Obj([status |-> Str("ok"), timestamp |-> Str("t")])]
      [] OTHER -> [ok |-> FALSE, value |-> Undefined]

---------------------------------------------------------------------------
(* LogGatewayClient: construction *)

\* Mutant: the endpoint is stored as given
KeepTrailingSlash(e) == e

\* endpoint.replace(/\/$/, ''): the last character is dropped when it is a slash
StripTrailingSlash(e) ==
    IF Len(e) > 0 /\ e[Len(e)] = "/" THEN SubSeq(e, 1, Len(e) - 1) ELSE e

ContentTypeOnly == [h \in {"Content-Type"} |-> "application/json"]

ClientHeaders(appId) ==
    [h \in {"X-App-Id", "Content-Type"} |->
        IF h = "X-App-Id" THEN appId ELSE "application/json"]

\* new LogGatewayClient(endpoint, appId): the object built, or the Error thrown
Construct(endpoint, appId) ==
    IF endpoint = <<>> \/ appId = ""
    THEN [ok |-> FALSE,
          error |-> Err("LogGatewayClient requires endpoint and appId")]
    ELSE [ok |-> TRUE,
          client |-> [endpoint |-> StripTrailingSlash(endpoint),
                      appId |-> appId,
                      headers |-> ClientHeaders(appId)]]

---------------------------------------------------------------------------
(* Promises *)

NoPromise == [state |-> "none", value |-> Undefined, settles |-> 0]
Pending == [state |-> "pending", value |-> Undefined, settles |-> 0]
Rejected(e) == [state |-> "rejected", value |-> e, settles |-> 1]

\* Mutant: a settled promise is settled again by a later resolve/reject
SettleAgain(p, state, value) ==
    [state |-> state, value |-> value, settles |-> p.settles + 1]

\* resolve(value) / reject(value) on a promise: only a pending promise
\* changes state; settles counts the state changes
Settle(p, state, value) ==
    IF p.state = "pending"
    THEN [state |-> state, value |-> value, settles |-> p.settles + 1]
    ELSE p

\* The promise of an async method whose body is
\*   try { return await http } catch (error) { throw new Error(prefix + error.message) }
AwaitHttp(prefix, http) ==
    CASE http.state = "fulfilled" ->
            [state |-> "fulfilled", value |-> http.value, settles |-> http.settles]
      [] http.state = "rejected" ->
            [state |-> "rejected",
             value |-> Err(prefix \o http.value.message),
             settles |-> http.settles]
      [] OTHER -> Pending

---------------------------------------------------------------------------
(* LogGatewayClient: the transport primitive and the methods *)

LevelFns == {"info", "warning", "error", "debug"}

\* The level each method passes to _sendLog
LevelOf(fn) == IF fn = "warning" THEN "warn" ELSE fn

\* The catch clause's prefix of each method
Prefix(fn) ==
    CASE fn = "batch" -> "Failed to send batch logs: "
      [] fn = "testConnection" -> "Gateway connection failed: "
      [] OTHER -> "Failed to send log: "

\* The request _httpRequest issues: the body is written only for truthy data.
\* The url is one that new URL() parses (the endpoint is a gateway URL), so
\* the request is always created.
HttpRequest(url, method, data, headers) ==
    [method |-> method,
     url |-> url,
     headers |-> headers,
     body |-> IF Truthy(data) THEN <<JSONstringify(data)>> ELSE <<>>]

\* The handler of the response's 'end' event: what it passes to resolve or
\* reject. Reading parsed.error of null throws a TypeError inside the try
\* block, which the catch clause reports as an invalid JSON response.
OnEnd(status, text) ==
    LET p == JSONparse(text) IN
    IF ~p.ok
    THEN [state |-> "rejected", value |-> Err("Invalid JSON response: " \o text)]
    ELSE IF status # 0 /\ status >= 200 /\ status < 300
    THEN [state |-> "fulfilled", value |-> p.value]
    ELSE IF p.value.t \in {"null", "undefined"}
    THEN [state |-> "rejected", value |-> Err("Invalid JSON response: " \o text)]
    ELSE LET e == GetProp(p.value, "error") IN
         [state |-> "rejected",
          value |-> Err(IF Truthy(e) THEN ToStr(e) ELSE "HTTP " \o ToString(status))]

\* The handler of the request's 'error' event
OnError(message) ==
    [state |-> "rejected", value |-> Err("Request failed: " \o message)]

\* What a method call leaves behind: the requests issued, the promise of
\* _httpRequest and the promise returned to the caller
Dispatched(request) ==
    [requests |-> <<request>>, http |-> Pending, promise |-> Pending]

Refused(message) ==
    [requests |-> <<>>, http |-> NoPromise, promise |-> Rejected(Err(message))]

\* Mutant: the request is sent without the msg check
SendLogUnvalidated(c, level, payload, t) ==
    Dispatched(HttpRequest(c.endpoint \o <<"/", "logs">>, "POST",
                           Obj(Overlay([level |-> Str(level),
                                        timestamp |-> Str(toISOString(t))],
                                       SpreadFields(payload))),
                           c.headers))

\* Mutant: the generated level and timestamp are spread after the payload
SendLogDefaultsWin(c, level, payload, t) ==
    LET logPayload ==
            Obj(Overlay(SpreadFields(payload),
                        [level |-> Str(level), timestamp |-> Str(toISOString(t))]))
    IN  IF ~Truthy(GetProp(logPayload, "msg"))
        THEN Refused("Log payload must include \"msg\" field")
        ELSE Dispatched(HttpRequest(c.endpoint \o <<"/", "logs">>, "POST",
                                    logPayload, c.headers))

\* _sendLog(level, payload) on client c at clock reading t
SendLog(c, level, payload, t) ==
    LET logPayload ==
            Obj(Overlay([level |-> Str(level), timestamp |-> Str(toISOString(t))],
                        SpreadFields(payload)))
    IN  IF ~Truthy(GetProp(logPayload, "msg"))
        THEN Refused("Log payload must include \"msg\" field")
        ELSE Dispatched(HttpRequest(c.endpoint \o <<"/", "logs">>, "POST",
                                    logPayload, c.headers))

\* Mutant: the generated timestamp is spread after the entry
SendBatchStampsAll(c, logs, t) ==
    IF logs.t # "array"
    THEN Refused("Batch logs must be an array")
    ELSE Dispatched(HttpRequest(c.endpoint \o <<"/", "logs">>, "POST",
                Arr([i \in 1..Len(logs.e) |->
                        Obj(Overlay(SpreadFields(logs.e[i]),
                                    [timestamp |-> Str(toISOString(t))]))]),
                c.headers))

\* batch(logs) on client c at clock reading t
SendBatch(c, logs, t) ==
    IF logs.t # "array"
    THEN Refused("Batch logs must be an array")
    ELSE LET processedLogs ==
                 Arr([i \in 1..Len(logs.e) |->
                        Obj(Overlay([timestamp |-> Str(toISOString(t))],
                                    SpreadFields(logs.e[i])))])
         IN  Dispatched(HttpRequest(c.endpoint \o <<"/", "logs">>, "POST",
                                    processedLogs, c.headers))

\* Mutant: the health check is sent with the instance's headers
SendHealthWithClientHeaders(c) ==
    Dispatched(HttpRequest(c.endpoint \o <<"/", "health">>, "GET", Null, c.headers))

\* testConnection() on client c
SendHealth(c) ==
    Dispatched(HttpRequest(c.endpoint \o <<"/", "health">>, "GET",
                           Null, ContentTypeOnly))

\* The method fn of client c called with arg
Invoke(c, fn, arg, t) ==
    CASE fn \in LevelFns -> SendLog(c, LevelOf(fn), arg, t)
      [] fn = "batch" -> SendBatch(c, arg, t)
      [] OTHER -> SendHealth(c)

\* History: the arguments of the latest successful configure call, if any
Registration ==
    [configured |-> lastConfigure.configured,
     endpoint |-> lastConfigure.endpoint,
     appId |-> lastConfigure.appId]

\* The record of one call: via is "client" for a method called on an
\* instance and "log" for a free function of the log object; at and
\* registered are history (the clock and the latest configure at the call)
CallRecord(via, i, fn, arg, out) ==
    [via |-> via, client |-> i, fn |-> fn, arg |-> arg, at |-> now,
     registered |-> Registration,
     thrown |-> Undefined,
     requests |-> out.requests, http |-> out.http, promise |-> out.promise,
     errorEv |-> FALSE, endEv |-> FALSE, first |-> "none",
     response |-> [status |-> 0, text |-> ""]]

\* A free function called while globalLogger is null: the arrow function
\* throws before it returns any promise
ThrownRecord(fn, arg) ==
    [via |-> "log", client |-> 0, fn |-> fn, arg |-> arg, at |-> now,
     registered |-> Registration,
     thrown |-> Err("Logger not configured. Call configure(endpoint, appId) first."),
     requests |-> <<>>, http |-> NoPromise, promise |-> NoPromise,
     errorEv |-> FALSE, endEv |-> FALSE, first |-> "none",
     response |-> [status |-> 0, text |-> ""]]

---------------------------------------------------------------------------
(* The factory, the registry and the free functions *)

NotConfigured == [configured |-> FALSE, endpoint |-> <<>>, appId |-> "", threw |-> FALSE]

\* Mutant: the factory also registers the instance it builds
CreateClientRegisters(e, a) ==
    LET c == Construct(e, a) IN
    /\ c.ok => Len(heap) < MaxClients
    /\ IF c.ok
       THEN /\ heap' = Append(heap, c.client)
            /\ made' = Append(made, [by |-> "createClient", endpoint |-> e, appId |-> a])
            /\ globalLogger' = Len(heap) + 1
       ELSE UNCHANGED <<heap, made, globalLogger>>
    /\ UNCHANGED <<lastConfigure, calls, now>>

\* createClient(endpoint, appId): a constructor that throws leaves no object
CreateClient(e, a) ==
    LET c == Construct(e, a) IN
    /\ c.ok => Len(heap) < MaxClients
    /\ IF c.ok
       THEN /\ heap' = Append(heap, c.client)
            /\ made' = Append(made, [by |-> "createClient", endpoint |-> e, appId |-> a])
       ELSE UNCHANGED <<heap, made>>
    /\ UNCHANGED <<globalLogger, lastConfigure, calls, now>>

\* Mutant: only the first configure call registers its instance
ConfigureOnlyOnce(e, a) ==
    LET c == Construct(e, a) IN
    /\ c.ok => Len(heap) < MaxClients
    /\ IF c.ok
       THEN /\ heap' = Append(heap, c.client)
            /\ made' = Append(made, [by |-> "configure", endpoint |-> e, appId |-> a])
            /\ globalLogger' = IF globalLogger = 0 THEN Len(heap) + 1 ELSE globalLogger
            /\ lastConfigure' = [configured |-> TRUE, endpoint |-> e, appId |-> a,
                                 threw |-> FALSE]
       ELSE /\ UNCHANGED <<heap, made, globalLogger>>
            /\ lastConfigure' = [lastConfigure EXCEPT !.threw = TRUE]
    /\ UNCHANGED <<calls, now>>

\* configure(endpoint, appId): globalLogger = createClient(endpoint, appId);
\* when createClient throws the assignment never happens
Configure(e, a) ==
    LET c == Construct(e, a) IN
    /\ c.ok => Len(heap) < MaxClients
    /\ IF c.ok
       THEN /\ heap' = Append(heap, c.client)
            /\ made' = Append(made, [by |-> "configure", endpoint |-> e, appId |-> a])
            /\ globalLogger' = Len(heap) + 1
            /\ lastConfigure' = [configured |-> TRUE, endpoint |-> e, appId |-> a,
                                 threw |-> FALSE]
       ELSE /\ UNCHANGED <<heap, made, globalLogger>>
            /\ lastConfigure' = [lastConfigure EXCEPT !.threw = TRUE]
    /\ UNCHANGED <<calls, now>>

\* client.fn(arg) on the instance heap[i]
ClientCall(i, fn, arg) ==
    /\ Len(calls) < MaxCalls
    /\ i \in 1..Len(heap)
    /\ calls' = Append(calls,
                       CallRecord("client", i, fn, arg, Invoke(heap[i], fn, arg, now)))
    /\ UNCHANGED <<heap, made, globalLogger, lastConfigure, now>>

\* log.fn(arg): throws when globalLogger is null, else forwards to it
LogCall(fn, arg) ==
    /\ Len(calls) < MaxCalls
    /\ calls' = Append(calls,
                       IF globalLogger = 0
                       THEN ThrownRecord(fn, arg)
                       ELSE CallRecord("log", globalLogger, fn, arg,
                                       Invoke(heap[globalLogger], fn, arg, now)))
    /\ UNCHANGED <<heap, made, globalLogger, lastConfigure, now>>

Info(i, payload) == ClientCall(i, "info", payload)
Warning(i, payload) == ClientCall(i, "warning", payload)
Error(i, payload) == ClientCall(i, "error", payload)
Debug(i, payload) == ClientCall(i, "debug", payload)
Batch(i, logs) == ClientCall(i, "batch", logs)
TestConnection(i) == ClientCall(i, "testConnection", Undefined)

LogInfo(payload) == LogCall("info", payload)
LogWarning(payload) == LogCall("warning", payload)
LogError(payload) == LogCall("error", payload)
LogDebug(payload) == LogCall("debug", payload)
LogBatch(logs) == LogCall("batch", logs)

---------------------------------------------------------------------------
(* The network: the events of a request in flight *)

\* What an event handler's resolve/reject call does to call c
Deliver(c, outcome, event) ==
    LET http == Settle(c.http, outcome.state, outcome.value) IN
    [c EXCEPT !.http = http,
              !.promise = AwaitHttp(Prefix(c.fn), http),
              !.first = IF c.first = "none" THEN event ELSE c.first]

\* req.on('error', ...) fires for the request of call k
ReqError(k, message) ==
    /\ k \in 1..Len(calls)
    /\ calls[k].requests # <<>>
    /\ ~calls[k].errorEv
    /\ calls' = [calls EXCEPT ![k] =
                    [Deliver(calls[k], OnError(message), "error") EXCEPT !.errorEv = TRUE]]
    /\ UNCHANGED <<heap, made, globalLogger, lastConfigure, now>>

\* res.on('end', ...) fires for the request of call k, the response having
\* the given status and accumulated body text
ResEnd(k, status, text) ==
    /\ k \in 1..Len(calls)
    /\ calls[k].requests # <<>>
    /\ ~calls[k].endEv
    /\ calls' = [calls EXCEPT ![k] =
                    [Deliver(calls[k], OnEnd(status, text), "end") EXCEPT
                        !.endEv = TRUE,
                        !.response = [status |-> status, text |-> text]]]
    /\ UNCHANGED <<heap, made, globalLogger, lastConfigure, now>>

\* Time passes
Tick ==
    /\ now < MaxTime
    /\ now' = now + 1
    /\ UNCHANGED <<heap, made, globalLogger, lastConfigure, calls>>

---------------------------------------------------------------------------
(* Inputs *)

\* "x" stands for a base URL without trailing slash, as in http://localhost:8080
\* The constructor arguments: endpoints with no, one and two trailing slashes,
\* two application ids, and a missing endpoint and a missing application id
ClientArgs ==
    { [endpoint |-> <<"x">>, appId |-> "a"],
      [endpoint |-> <<"x", "/">>, appId |-> "b"],
      [endpoint |-> <<"x", "/", "/">>, appId |-> "b"],
      [endpoint |-> <<>>, appId |-> "a"],
      [endpoint |-> <<"x">>, appId |-> ""] }

SomeClientArgs ==
    { [endpoint |-> <<"x">>, appId |-> "a"],
      [endpoint |-> <<"x", "/">>, appId |-> "b"],
      [endpoint |-> <<>>, appId |-> "a"],
      [endpoint |-> <<"x">>, appId |-> ""] }

CreatedArgs ==
    { [endpoint |-> <<"x">>, appId |-> "a"],
      [endpoint |-> <<"x", "/">>, appId |-> "b"],
      [endpoint |-> <<"x">>, appId |-> ""] }

RegisteredArgs ==
    { [endpoint |-> <<"x", "/">>, appId |-> "b"],
      [endpoint |-> <<>>, appId |-> "a"] }

GoodPayload == Obj([msg |-> Str("m")])
GoodBatch == Arr(<<Obj([level |-> Str("info"), msg |-> Str("a")])>>)

Payloads ==
    { Obj(NoFields),
      Null,
      Obj([msg |-> Str("")]),
      Obj([level |-> Str("fatal")]),
      GoodPayload,
      Obj([msg |-> Str("m"), timestamp |-> Str("ts")]),
      Obj([msg |-> Str("m"), timestamp |-> Undefined]),
      Obj([msg |-> Str("m"), level |-> Str("fatal")]),
      Obj([msg |-> Str("m"), level |-> Str("fatal"), timestamp |-> Str("ts"),
           service |-> Str("s"), n |-> Num(0)]) }

BatchEntries ==
    { Obj([level |-> Str("info"), msg |-> Str("a")]),
      Obj([level |-> Str("error"), msg |-> Str("b"), timestamp |-> Str("ts")]) }

BatchInputs ==
    { Arr(<<>>) }
    \cup { Arr(<<x>>) : x \in BatchEntries }
    \cup { Arr(<<x, y>>) : x \in BatchEntries, y \in BatchEntries }
    \cup { GoodPayload, Undefined, Str("logs") }

Statuses == {199, 200, 201, 299, 300, 500}
Texts ==
    { "not-json", "", "null", "5", "{}", "{\"error\":\"db down\"}", "{\"error\":\"\"}",
      "{\"success\":true,\"ingested\":1}" }
OkText == "{\"success\":true,\"ingested\":1}"
NetErrors == {"ECONNREFUSED"}

---------------------------------------------------------------------------
(* Specifications *)

Init ==
    /\ heap = <<>>
    /\ made = <<>>
    /\ globalLogger = 0
    /\ lastConfigure = NotConfigured
    /\ calls = <<>>
    /\ now = 1

\* The registry: configure and the free functions of the log object
Next ==
    \/ \E x \in SomeClientArgs : Configure(x.endpoint, x.appId)
    \/ LogInfo(GoodPayload)
    \/ LogWarning(GoodPayload)
    \/ LogError(GoodPayload)
    \/ LogDebug(GoodPayload)
    \/ LogBatch(GoodBatch)

Spec == Init /\ [][Next]_vars

\* Construction over every constructor argument, and the requests of the
\* instances built
NextConstruct ==
    \/ \E x \in ClientArgs : CreateClient(x.endpoint, x.appId)
    \/ \E i \in 1..Len(heap) : Info(i, GoodPayload)
    \/ \E i \in 1..Len(heap) : TestConnection(i)

SpecConstruct == Init /\ [][NextConstruct]_vars

\* Independent instances beside the registry: createClient, configure, the
\* methods called on an instance and a free function
NextClients ==
    \/ \E x \in CreatedArgs : CreateClient(x.endpoint, x.appId)
    \/ \E x \in RegisteredArgs : Configure(x.endpoint, x.appId)
    \/ \E i \in 1..Len(heap) : Info(i, GoodPayload)
    \/ \E i \in 1..Len(heap) : Batch(i, GoodBatch)
    \/ \E i \in 1..Len(heap) : TestConnection(i)
    \/ LogWarning(GoodPayload)

SpecClients == Init /\ [][NextClients]_vars

\* One registered client
ConfigureOnce == globalLogger = 0 /\ Configure(<<"x", "/">>, "a")

\* The level methods and batch over every payload, at every clock reading
NextSend ==
    \/ ConfigureOnce
    \/ \E p \in Payloads : Info(1, p)
    \/ \E p \in Payloads : Warning(1, p)
    \/ \E p \in Payloads : Error(1, p)
    \/ \E p \in Payloads : Debug(1, p)
    \/ \E b \in BatchInputs : Batch(1, b)
    \/ Tick

SpecSend == Init /\ [][NextSend]_vars

\* The level methods and the network events of their requests, in every order
NextSettle ==
    \/ ConfigureOnce
    \/ Info(1, GoodPayload)
    \/ Warning(1, GoodPayload)
    \/ Error(1, GoodPayload)
    \/ LogDebug(GoodPayload)
    \/ \E k \in 1..Len(calls), m \in NetErrors : ReqError(k, m)
    \/ \E k \in 1..Len(calls) : ResEnd(k, 201, OkText)

SpecSettle == Init /\ [][NextSettle]_vars

\* Every response status and body text
NextTransport ==
    \/ ConfigureOnce
    \/ Info(1, GoodPayload)
    \/ TestConnection(1)
    \/ \E k \in 1..Len(calls), m \in NetErrors : ReqError(k, m)
    \/ \E k \in 1..Len(calls), s \in Statuses, t \in Texts : ResEnd(k, s, t)

SpecTransport == Init /\ [][NextTransport]_vars

---------------------------------------------------------------------------
(* Vocabulary of the properties *)

CallIds == 1..Len(calls)

\* The call reached a method of an instance
OnInstance(c) == c.client # 0

IsLevelCall(c) == OnInstance(c) /\ c.fn \in {"info", "warning", "error", "debug"}

\* The payload carries a non-empty msg
HasMsg(arg) ==
    /\ arg.t = "object"
    /\ "msg" \in DOMAIN arg.f
    /\ arg.f["msg"].t = "string"
    /\ arg.f["msg"].s # ""

\* The wire value of a level per method
WireLevel(fn) ==
    CASE fn = "info" -> "info"
      [] fn = "warning" -> "warn"
      [] fn = "error" -> "error"
      [] fn = "debug" -> "debug"

\* e without its last character when that is a slash
WithoutOneSlash(e) ==
    IF e # <<>> /\ e[Len(e)] = "/" THEN [i \in 1..(Len(e) - 1) |-> e[i]] ELSE e

EndsWithSlash(e) == e # <<>> /\ e[Len(e)] = "/"

DoubleSlash(url) == \E i \in 1..(Len(url) - 1) : url[i] = "/" /\ url[i + 1] = "/"

AppIdAndContentType(appId) ==
    ("X-App-Id" :> appId) @@ ("Content-Type" :> "application/json")

---------------------------------------------------------------------------
(* C1 *)

\* C1: a level-method call (info, warning, error, debug) whose payload has
\* no msg, absent or empty, is rejected with the validation error and no
\* HTTP request is ever issued for it.
C1_NoMsgRejectedWithoutRequest ==
    \A k \in CallIds :
        (IsLevelCall(calls[k]) /\ ~HasMsg(calls[k].arg)) =>
            /\ calls[k].requests = <<>>
            /\ calls[k].thrown = Undefined
            /\ calls[k].promise.state = "rejected"
            /\ calls[k].promise.value = Err("Log payload must include \"msg\" field")

\* The four level methods have each been called without a usable msg: an
\* empty msg, a null payload, a payload with other fields only
C1_Witness ==
    /\ \E k \in CallIds : calls[k].fn = "warning" /\ OnInstance(calls[k])
                          /\ calls[k].arg = Obj([msg |-> Str("")])
    /\ \E k \in CallIds : calls[k].fn \in {"info", "error", "debug"}
                          /\ OnInstance(calls[k])
                          /\ calls[k].arg = Obj([level |-> Str("fatal")])
                          /\ calls[k].promise.state = "rejected"

---------------------------------------------------------------------------
(* C2 *)

\* C2: a log.* free function called while no instance is registered fails
\* as a rejected promise (the failure is an asynchronous result), and no
\* HTTP request is issued.
C2_NotConfiguredRejects ==
    \A k \in CallIds :
        (calls[k].via = "log" /\ ~calls[k].registered.configured) =>
            /\ calls[k].requests = <<>>
            /\ calls[k].thrown = Undefined
            /\ calls[k].promise.state = "rejected"

---------------------------------------------------------------------------
(* C3 *)

\* The outcome the transport is to give a completed response
C3_Expected(status, text) ==
    LET p == JSONparse(text) IN
    IF ~p.ok
    THEN [state |-> "rejected", value |-> Err("Invalid JSON response: " \o text)]
    ELSE IF status >= 200 /\ status < 300
    THEN [state |-> "fulfilled", value |-> p.value]
    ELSE IF p.value.t = "object" /\ "error" \in DOMAIN p.value.f
            /\ p.value.f["error"] # Str("")
    THEN [state |-> "rejected", value |-> Err(p.value.f["error"].s)]
    ELSE [state |-> "rejected", value |-> Err("HTTP " \o ToString(status))]

\* C3: for every completed response (status, body text) the transport's
\* outcome is: invalid-JSON error carrying the raw text when the body does
\* not decode; the decoded value when it decodes and 200 <= status < 300;
\* otherwise, for any decoded value (null, a number, an object without an
\* error field included), the error field if present, else "HTTP {status}".
C3_TransportOutcome ==
    \A k \in CallIds :
        calls[k].first = "end" =>
            LET want == C3_Expected(calls[k].response.status, calls[k].response.text)
            IN  /\ calls[k].http.state = want.state
                /\ calls[k].http.value = want.value

---------------------------------------------------------------------------
(* C4 *)

\* C4: the body a level method transmits is the generated defaults
\* {level, timestamp} overlaid by the caller's payload: level is the
\* method's fixed wire value unless the payload has a level, timestamp is
\* the generated time unless the payload has a timestamp, and every field
\* of the payload is transmitted with the caller's value.
C4_BodyIsDefaultsOverlaidByPayload ==
    \A k \in CallIds :
        (IsLevelCall(calls[k]) /\ HasMsg(calls[k].arg)) =>
            /\ Len(calls[k].requests) = 1
            /\ Len(calls[k].requests[1].body) = 1
            /\ LET body == calls[k].requests[1].body[1].json
                   p == calls[k].arg.f
               IN  /\ body.t = "object"
                   /\ GetProp(body, "level") =
                        (IF "level" \in DOMAIN p THEN p["level"]
                         ELSE Str(WireLevel(calls[k].fn)))
                   /\ GetProp(body, "timestamp") =
                        (IF "timestamp" \in DOMAIN p THEN p["timestamp"]
                         ELSE Str(toISOString(calls[k].at)))
                   /\ \A f \in DOMAIN p : GetProp(body, f) = p[f]
                   /\ DOMAIN body.f \subseteq ({"level", "timestamp"} \cup DOMAIN p)

\* warning() was called with a payload that supplies level and timestamp
\* and extra fields, and a level method was called at a later clock reading
\* with a payload supplying neither
C4_Witness ==
    /\ \E k \in CallIds :
            /\ calls[k].fn = "warning" /\ OnInstance(calls[k])
            /\ calls[k].arg.t = "object"
            /\ DOMAIN calls[k].arg.f = {"msg", "level", "timestamp", "service", "n"}
            /\ calls[k].requests # <<>>
    /\ \E k \in CallIds :
            /\ IsLevelCall(calls[k]) /\ calls[k].arg = GoodPayload
            /\ calls[k].at = 2
            /\ calls[k].requests # <<>>

---------------------------------------------------------------------------
(* C5 *)

\* The entry as it is to be transmitted at clock reading t
C5_Stamped(entry, t) ==
    IF "timestamp" \in DOMAIN entry.f
    THEN entry
    ELSE Obj([f \in DOMAIN entry.f \cup {"timestamp"} |->
                IF f = "timestamp" THEN Str(toISOString(t)) ELSE entry.f[f]])

\* C5: batch(logs) with a sequence of n entries issues exactly one POST to
\* {endpoint}/logs whose body is an array of the n entries in order, each
\* with a generated timestamp added only when it supplied none; with a
\* non-sequence it is rejected with the validation error and issues no
\* request.
C5_BatchIsOnePost ==
    \A k \in CallIds :
        (calls[k].fn = "batch" /\ OnInstance(calls[k])) =>
            IF calls[k].arg.t = "array"
            THEN /\ Len(calls[k].requests) = 1
                 /\ calls[k].requests[1].method = "POST"
                 /\ calls[k].requests[1].url =
                        heap[calls[k].client].endpoint \o <<"/", "logs">>
                 /\ Len(calls[k].requests[1].body) = 1
                 /\ LET body == calls[k].requests[1].body[1].json
                        logs == calls[k].arg.e
                    IN  /\ body.t = "array"
                        /\ Len(body.e) = Len(logs)
                        /\ \A i \in 1..Len(logs) :
                              body.e[i] = C5_Stamped(logs[i], calls[k].at)
            ELSE /\ calls[k].requests = <<>>
                 /\ calls[k].promise.state = "rejected"
                 /\ calls[k].promise.value = Err("Batch logs must be an array")

\* A batch of two entries, one with and one without a timestamp, has been
\* sent, and a batch with a non-sequence has been refused
C5_Witness ==
    /\ \E k \in CallIds :
            /\ calls[k].fn = "batch" /\ calls[k].arg.t = "array"
            /\ Len(calls[k].arg.e) = 2
            /\ "timestamp" \in DOMAIN calls[k].arg.e[1].f
            /\ "timestamp" \notin DOMAIN calls[k].arg.e[2].f
            /\ calls[k].requests # <<>>
    /\ \E k \in CallIds :
            /\ calls[k].fn = "batch" /\ OnInstance(calls[k])
            /\ calls[k].arg.t # "array"

---------------------------------------------------------------------------
(* C6 *)

\* The heap index of the instance the latest successful configure built
LatestConfigured ==
    LET S == {j \in 1..Len(heap) : made[j].by = "configure"} IN
    IF S = {} THEN 0 ELSE CHOOSE j \in S : \A m \in S : m <= j

\* C6: after any sequence of configure calls the registry holds exactly the
\* client built by the most recent configure call that succeeded (replaced,
\* never merged); every log.* call issued afterwards is sent with that
\* client's endpoint and app id; a configure call that fails on a missing
\* or empty argument leaves the registered client in place.
C6_RegistryHoldsLatestConfigured ==
    /\ (globalLogger = 0) <=> ~lastConfigure.configured
    /\ globalLogger # 0 =>
        /\ globalLogger = LatestConfigured
        /\ heap[globalLogger].endpoint = WithoutOneSlash(lastConfigure.endpoint)
        /\ heap[globalLogger].appId = lastConfigure.appId
        /\ heap[globalLogger].headers = AppIdAndContentType(lastConfigure.appId)
    /\ \A k \in CallIds :
        (calls[k].via = "log" /\ calls[k].registered.configured) =>
            /\ Len(calls[k].requests) = 1
            /\ calls[k].requests[1].url =
                    WithoutOneSlash(calls[k].registered.endpoint) \o <<"/", "logs">>
            /\ calls[k].requests[1].headers["X-App-Id"] = calls[k].registered.appId

\* Two configure calls with different arguments succeeded, a free function
\* was called after each, and a later configure call failed
C6_Witness ==
    /\ Len(calls) = 2
    /\ calls[1].via = "log" /\ calls[1].client = 1
    /\ calls[2].via = "log" /\ calls[2].client = 2
    /\ made[1].appId # made[2].appId
    /\ made[1].endpoint # made[2].endpoint
    /\ globalLogger = 2
    /\ lastConfigure.threw

---------------------------------------------------------------------------
(* C7 *)

---------------------------------------------------------------------------
(* C8 *)

\* C8 as stated: for all valid constructor arguments the stored endpoint
\* has no trailing slash, and no request URL has a double slash between
\* base and path.
C8_NeverTrailingSlash ==
    /\ \A i \in 1..Len(heap) : ~EndsWithSlash(heap[i].endpoint)
    /\ \A k \in CallIds :
        \A n \in 1..Len(calls[k].requests) : ~DoubleSlash(calls[k].requests[n].url)

AtMostOneTrailingSlash(e) ==
    Len(e) < 2 \/ e[Len(e)] # "/" \/ e[Len(e) - 1] # "/"

\* C8 amended: the stored endpoint is the given one with exactly one
\* trailing slash removed if present; for a given endpoint with no or one
\* trailing slash the stored endpoint has no trailing slash and no request
\* URL of the instance has a double slash between base and path.
C8_OneTrailingSlashStripped ==
    \A i \in 1..Len(heap) :
        /\ heap[i].endpoint = WithoutOneSlash(made[i].endpoint)
        /\ AtMostOneTrailingSlash(made[i].endpoint) =>
            /\ ~EndsWithSlash(heap[i].endpoint)
            /\ \A k \in CallIds :
                calls[k].client = i =>
                    \A n \in 1..Len(calls[k].requests) :
                        ~DoubleSlash(calls[k].requests[n].url)

\* An instance built from an endpoint with one trailing slash and one built
\* from an endpoint with none have each issued a request
C8_Witness ==
    \E k1, k2 \in CallIds :
        /\ OnInstance(calls[k1]) /\ OnInstance(calls[k2])
        /\ made[calls[k1].client].endpoint = <<"x", "/">>
        /\ made[calls[k2].client].endpoint = <<"x">>
        /\ calls[k1].requests # <<>> /\ calls[k2].requests # <<>>

---------------------------------------------------------------------------
(* C9 *)

\* C9: a level-method call with a valid payload issues exactly one POST to
\* {endpoint}/logs and never a second request, and it settles once: its
\* promise is pending until the first network event, then takes the outcome
\* of that event and keeps it, also when an error event and a response-end
\* event both occur for the request.
C9_OneRequestOneSettlement ==
    \A k \in CallIds :
        (IsLevelCall(calls[k]) /\ HasMsg(calls[k].arg)) =>
            /\ Len(calls[k].requests) = 1
            /\ calls[k].requests[1].method = "POST"
            /\ calls[k].requests[1].url =
                    heap[calls[k].client].endpoint \o <<"/", "logs">>
            /\ calls[k].thrown = Undefined
            /\ calls[k].promise.settles <= 1
            /\ CASE calls[k].first = "none" ->
                        /\ calls[k].promise.state = "pending"
                        /\ calls[k].promise.settles = 0
                 [] calls[k].first = "error" ->
                        /\ calls[k].promise.state = "rejected"
                        /\ calls[k].promise.settles = 1
                 [] calls[k].first = "end" ->
                        /\ calls[k].promise.state = "fulfilled"
                        /\ calls[k].promise.value =
                                Obj([success |-> Bool(TRUE), ingested |-> Num(1)])
                        /\ calls[k].promise.settles = 1

\* A level-method call whose request saw the response end first and a
\* network error afterwards, and one that saw them in the other order
C9_Witness ==
    /\ \E k \in CallIds :
        /\ IsLevelCall(calls[k])
        /\ calls[k].errorEv /\ calls[k].endEv /\ calls[k].first = "end"
    /\ \E k \in CallIds :
        /\ IsLevelCall(calls[k])
        /\ calls[k].errorEv /\ calls[k].endEv /\ calls[k].first = "error"

---------------------------------------------------------------------------
(* C10 *)

\* C10 as stated: every request issued from a given instance uses the same
\* header set.
C10_SameHeadersOnEveryRequest ==
    \A k1, k2 \in CallIds :
        (/\ OnInstance(calls[k1])
         /\ calls[k1].client = calls[k2].client
         /\ calls[k1].requests # <<>>
         /\ calls[k2].requests # <<>>) =>
            calls[k1].requests[1].headers = calls[k2].requests[1].headers

\* C10 amended: an instance's endpoint and headers stay those fixed at its
\* construction; every POST to /logs from it (the level methods and batch)
\* uses the instance's header set, X-App-Id and Content-Type; the GET to
\* /health of testConnection uses Content-Type only; every request uses the
\* instance's endpoint base.
C10_HeadersFixedPerEndpoint ==
    /\ \A i \in 1..Len(heap) :
        /\ heap[i].endpoint = WithoutOneSlash(made[i].endpoint)
        /\ heap[i].appId = made[i].appId
        /\ heap[i].headers = AppIdAndContentType(made[i].appId)
    /\ \A k \in CallIds :
        (OnInstance(calls[k]) /\ calls[k].requests # <<>>) =>
            LET r == calls[k].requests[1]
                base == WithoutOneSlash(made[calls[k].client].endpoint)
            IN  IF calls[k].fn = "testConnection"
                THEN /\ r.method = "GET"
                     /\ r.url = base \o <<"/", "health">>
                     /\ r.headers = ("Content-Type" :> "application/json")
                ELSE /\ r.method = "POST"
                     /\ r.url = base \o <<"/", "logs">>
                     /\ r.headers = AppIdAndContentType(made[calls[k].client].appId)

\* One instance has issued a testConnection request and a batch request,
\* and configure has since registered another instance
C10_Witness ==
    /\ \E k1, k2 \in CallIds :
        /\ calls[k1].client = calls[k2].client
        /\ calls[k1].fn = "testConnection" /\ calls[k2].fn = "batch"
        /\ calls[k1].requests # <<>> /\ calls[k2].requests # <<>>
        /\ globalLogger > calls[k1].client

====
